---- MODULE Spec2Model ----
(***************************************************************************)
(* Model of the two signal extractors of ralph-loop:                       *)
(*   json_extractor.py     find_json_containing / main  (the Locator)      *)
(*   rate_limit_parser.py  find_rate_limit_pattern /                       *)
(*                         parse_time_with_timezone / main (the Resolver)  *)
(* A text is a sequence of symbols.  A symbol is one character ("{", "1",  *)
(* " ", ...) or a word the code never looks inside (Ticks, "json",         *)
(* "resets", a zone name, ...).                                            *)
(***************************************************************************)
EXTENDS Integers, Sequences, FiniteSets, TLC

VARIABLES
    prog,         \* which script runs: "locator" or "resolver"
    pc,           \* position in the script
    content,      \* the text read from the file
    segs,         \* how the input text was put together (input description)
    json_type,    \* Locator: the marker key (argv[2])
    pos,          \* Locator: where re.finditer resumes its search
    start,        \* Locator: index of the opening brace of the candidate
    i,            \* Locator: index of the character the forward scan is at
    depth,        \* Locator: brace depth of the forward scan
    in_string,    \* Locator: inside a string literal
    escape_next,  \* Locator: the previous character was a backslash in a string
    end,          \* Locator: index after the closing brace of the candidate
    result,       \* Locator: what find_json_containing returned
    time_str,     \* Resolver: the captured time text, NoText when none
    tz_str,       \* Resolver: the captured zone label, NoText when none
    detected,     \* Resolver: a rate limit was detected
    now,          \* Resolver: datetime.now(tz)
    hour,         \* Resolver: the parsed hour
    minute,       \* Resolver: the parsed minute
    stdout,       \* what the process printed on standard output
    exit_code     \* the exit code of the process (-1 while running)

locatorVars == <<json_type, pos, start, i, depth, in_string, escape_next, end, result>>

resolverVars == <<time_str, tz_str, detected, now, hour, minute>>

vars == <<prog, pc, content, segs, locatorVars, resolverVars, stdout, exit_code>>

----------------------------------------------------------------------------
(* Sequences of symbols *)

Digits == {"0", "1", "2", "3", "4", "5", "6", "7", "8", "9"}

IsWs(c) == c = " "

\* Python: sub in s
Contains(s, sub) ==
    \E k \in 1..(Len(s) - Len(sub) + 1) : SubSeq(s, k, k + Len(sub) - 1) = sub

\* Python: s.find(sub), 1-based; 0 stands for Python's -1
Find(s, sub) ==
    IF Contains(s, sub)
    THEN CHOOSE k \in 1..(Len(s) - Len(sub) + 1) :
            /\ SubSeq(s, k, k + Len(sub) - 1) = sub
            /\ \A j \in 1..(k - 1) : SubSeq(s, j, j + Len(sub) - 1) # sub
    ELSE 0

RECURSIVE SkipWs(_, _)
\* the index after the run of whitespace that starts at p
SkipWs(s, p) == IF p <= Len(s) /\ IsWs(s[p]) THEN SkipWs(s, p + 1) ELSE p

RECURSIVE SkipWsBack(_, _)
\* the index before the run of whitespace that ends at p
SkipWsBack(s, p) == IF p >= 1 /\ IsWs(s[p]) THEN SkipWsBack(s, p - 1) ELSE p

\* Python: s.strip()
Strip(s) == SubSeq(s, SkipWs(s, 1), SkipWsBack(s, Len(s)))

----------------------------------------------------------------------------
(* json.loads, for the JSON the inputs can hold: objects, arrays, strings  *)
(* with the escapes \" and \\, and unsigned integers.                      *)

ParseFail == [ok |-> FALSE, next |-> 0, kind |-> "none", keys |-> {}, items |-> {}, str |-> <<>>]

ParseOk(n, k) == [ok |-> TRUE, next |-> n, kind |-> k, keys |-> {}, items |-> {}, str |-> <<>>]

RECURSIVE ScanString(_, _, _)
\* p is the index after the opening quote; acc is the decoded string so far
ScanString(s, p, acc) ==
    IF p > Len(s) THEN ParseFail
    ELSE IF s[p] = "\"" THEN [ParseOk(p + 1, "str") EXCEPT !.str = acc]
    ELSE IF s[p] = "\\"
         THEN IF p + 1 <= Len(s) /\ s[p + 1] \in {"\"", "\\"}
              THEN ScanString(s, p + 2, Append(acc, s[p + 1]))
              ELSE ParseFail
    ELSE ScanString(s, p + 1, Append(acc, s[p]))

RECURSIVE ScanDigits(_, _)
ScanDigits(s, p) == IF p <= Len(s) /\ s[p] \in Digits THEN ScanDigits(s, p + 1) ELSE p

ScanNumber(s, p) ==
    IF s[p] = "0" /\ p + 1 <= Len(s) /\ s[p + 1] \in Digits
    THEN ParseFail
    ELSE ParseOk(ScanDigits(s, p), "num")

RECURSIVE ParseValue(_, _)
RECURSIVE ParseMembers(_, _, _)
RECURSIVE ParseElements(_, _, _)

\* a value that starts at p (no leading whitespace)
ParseValue(s, p) ==
    IF p > Len(s) THEN ParseFail
    ELSE IF s[p] = "\"" THEN ScanString(s, p + 1, <<>>)
    ELSE IF s[p] \in Digits THEN ScanNumber(s, p)
    ELSE IF s[p] = "{"
         THEN LET q == SkipWs(s, p + 1)
              IN  IF q <= Len(s) /\ s[q] = "}"
                  THEN ParseOk(q + 1, "obj")
                  ELSE ParseMembers(s, q, {})
    ELSE IF s[p] = "["
         THEN LET q == SkipWs(s, p + 1)
              IN  IF q <= Len(s) /\ s[q] = "]"
                  THEN ParseOk(q + 1, "arr")
                  ELSE ParseElements(s, q, {})
    ELSE ParseFail

\* "key" : value , ... }   from p, the index of the key's opening quote
ParseMembers(s, p, keys) ==
    IF p > Len(s) \/ s[p] # "\"" THEN ParseFail
    ELSE LET k == ScanString(s, p + 1, <<>>)
         IN  IF ~k.ok THEN ParseFail
             ELSE LET c == SkipWs(s, k.next)
                  IN  IF c > Len(s) \/ s[c] # ":" THEN ParseFail
                      ELSE LET v == ParseValue(s, SkipWs(s, c + 1))
                           IN  IF ~v.ok THEN ParseFail
                               ELSE LET d == SkipWs(s, v.next)
                                    IN  IF d > Len(s) THEN ParseFail
                                        ELSE IF s[d] = "}"
                                             THEN [ParseOk(d + 1, "obj") EXCEPT
                                                      !.keys = keys \cup {k.str}]
                                        ELSE IF s[d] = ","
                                             THEN ParseMembers(s, SkipWs(s, d + 1),
                                                               keys \cup {k.str})
                                        ELSE ParseFail

\* value , ... ]   from p, the index of the first value; items are the string elements
ParseElements(s, p, items) ==
    LET v == ParseValue(s, p)
    IN  IF ~v.ok THEN ParseFail
        ELSE LET d  == SkipWs(s, v.next)
                 it == IF v.kind = "str" THEN items \cup {v.str} ELSE items
             IN  IF d > Len(s) THEN ParseFail
                 ELSE IF s[d] = "]" THEN [ParseOk(d + 1, "arr") EXCEPT !.items = it]
                 ELSE IF s[d] = "," THEN ParseElements(s, SkipWs(s, d + 1), it)
                 ELSE ParseFail

\* json.loads(s): one value with whitespace around it and nothing else
Loads(s) ==
    LET v == ParseValue(s, SkipWs(s, 1))
    IN  IF v.ok /\ SkipWs(s, v.next) = Len(s) + 1 THEN v ELSE ParseFail

\* Python: key in parsed, for parsed = json.loads(...); a number has no "in"
\* (TypeError), which the bare except of the caller swallows.
KeyIn(key, parsed) ==
    CASE parsed.kind = "obj" -> key \in parsed.keys
      [] parsed.kind = "arr" -> key \in parsed.items
      [] parsed.kind = "str" -> Contains(parsed.str, key)
      [] OTHER -> FALSE

RECURSIVE DumpsFrom(_, _, _)
\* json.dumps(json.loads(s)) for a valid s: whitespace between tokens dropped,
\* ", " and ": " as separators, strings kept as written
DumpsFrom(s, p, instr) ==
    IF p > Len(s) THEN <<>>
    ELSE IF instr
         THEN IF s[p] = "\\" /\ p + 1 <= Len(s)
              THEN <<s[p], s[p + 1]>> \o DumpsFrom(s, p + 2, TRUE)
              ELSE <<s[p]>> \o DumpsFrom(s, p + 1, s[p] # "\"")
    ELSE IF IsWs(s[p]) THEN DumpsFrom(s, p + 1, FALSE)
    ELSE IF s[p] \in {",", ":"} THEN <<s[p], " ">> \o DumpsFrom(s, p + 1, FALSE)
    ELSE <<s[p]>> \o DumpsFrom(s, p + 1, s[p] = "\"")

Dumps(s) == DumpsFrom(s, 1, FALSE)

----------------------------------------------------------------------------
(* The Locator's inputs: a text is up to MaxSegs pieces, each a piece of   *)
(* prose, a bare JSON value or a JSON value in a json fence.               *)

MaxSegs == 3

Q == "\""

ObjK1 == <<"{", Q, "K", Q, ":", "1", "}">>
ObjK2 == <<"{", Q, "K", Q, ":", "2", "}">>
\* {"a":{"b":1},"K":1}
ObjAfterNested == <<"{", Q, "a", Q, ":", "{", Q, "b", Q, ":", "1", "}", ",", Q, "K", Q, ":", "1", "}">>
\* {"K":"}\"\\"}   the string value is  }"\
ObjEscapes == <<"{", Q, "K", Q, ":", Q, "}", "\\", Q, "\\", "\\", Q, "}">>
\* {"a":"{","K":1}
ObjBraceInString == <<"{", Q, "a", Q, ":", Q, "{", Q, ",", Q, "K", Q, ":", "1", "}">>
\* {"a":1}
ObjNoKey == <<"{", Q, "a", Q, ":", "1", "}">>
\* ["K"]
ArrK == <<"[", Q, "K", Q, "]">>

ProsePlain  == <<"x", " ">>
ProseBraces == <<"{", "x", "}", " ">>
ProseKey    == <<Q, "K", Q, " ">>

ProseBodies  == {ProsePlain, ProseBraces, ProseKey}
BareBodies   == {ObjK1, ObjAfterNested, ObjEscapes, ObjBraceInString}
FencedBodies == {ObjK2, ObjNoKey, ArrK}

Atoms ==
    [kind : {"prose"}, body : ProseBodies]
    \cup [kind : {"bare"}, body : BareBodies]
    \cup [kind : {"fenced"}, body : FencedBodies]

\* the symbol for three backticks in a row
Ticks == "ticks"

\* the text of one piece
Render(a) ==
    IF a.kind = "fenced" THEN <<Ticks, "json", " ">> \o a.body \o <<" ", Ticks, " ">>
    ELSE a.body

RECURSIVE RenderAll(_)
RenderAll(ss) == IF ss = <<>> THEN <<>> ELSE Render(Head(ss)) \o RenderAll(Tail(ss))

\* a datetime: date counts the days since 1970-01-01, the rest is the wall clock
DateTime(d, h, m, sec, us, f) ==
    [date |-> d, hour |-> h, minute |-> m, second |-> sec, microsecond |-> us, fold |-> f]

NoTime == DateTime(0, 0, 0, 0, 0, 0)

\* result of find_json_containing: None, or the text it returns
None == [found |-> FALSE, text |-> <<>>]
Some(t) == [found |-> TRUE, text |-> t]

----------------------------------------------------------------------------
(* json_extractor.py *)

InitLocator ==
    /\ prog = "locator"
    /\ pc = "fenced"
    /\ segs \in UNION {[1..n -> Atoms] : n \in 0..MaxSegs}
    /\ content = RenderAll(segs)
    /\ json_type = <<"K">>
    /\ pos = 1
    /\ start = 0 /\ i = 0 /\ depth = 0 /\ end = 0
    /\ in_string = FALSE /\ escape_next = FALSE
    /\ result = None
    /\ stdout = <<>>
    /\ exit_code = -1
    /\ time_str = <<>> /\ tz_str = <<>> /\ detected = FALSE
    /\ now = NoTime /\ hour = 0 /\ minute = 0

\* re.finditer(code_block_pattern, content, re.DOTALL) from index p: the opening
\* fence of the next match, 0 when there is none.  A match needs closing ticks
\* at or after the end of the whitespace that follows the opening fence.
HasFenceAt(s, k) ==
    /\ k + 1 <= Len(s)
    /\ s[k] = Ticks /\ s[k + 1] = "json"
    /\ \E c \in SkipWs(s, k + 2)..Len(s) : s[c] = Ticks

NextFence(s, p) ==
    IF \E k \in p..Len(s) : HasFenceAt(s, k)
    THEN CHOOSE k \in p..Len(s) :
            HasFenceAt(s, k) /\ \A j \in p..(k - 1) : ~HasFenceAt(s, j)
    ELSE 0

\* the closing fence of the match that opens at k (non-greedy: the first one)
CloseOf(s, k) ==
    CHOOSE c \in SkipWs(s, k + 2)..Len(s) :
        s[c] = Ticks /\ \A j \in SkipWs(s, k + 2)..(c - 1) : s[j] # Ticks

\* match.group(1).strip()
BlockOf(s, k) == Strip(SubSeq(s, SkipWs(s, k + 2), CloseOf(s, k) - 1))

\* the test a block passes to be returned (lines 28-32)
BlockQualifies(block, key) ==
    /\ Contains(block, key)
    /\ Loads(block).ok
    /\ KeyIn(key, Loads(block))

\* Method 1, one iteration of the loop: the block is returned
FencedReturn ==
    /\ prog = "locator" /\ pc = "fenced"
    /\ NextFence(content, pos) # 0
    /\ LET block == BlockOf(content, NextFence(content, pos))
       IN  /\ BlockQualifies(block, json_type)
           /\ result' = Some(block)
    /\ pc' = "main"
    /\ UNCHANGED <<prog, content, segs, json_type, pos, start, i, depth, in_string,
                   escape_next, end, stdout, exit_code>>
    /\ UNCHANGED resolverVars

\* Method 1, one iteration of the loop: the block is passed over
FencedSkip ==
    /\ prog = "locator" /\ pc = "fenced"
    /\ NextFence(content, pos) # 0
    /\ ~BlockQualifies(BlockOf(content, NextFence(content, pos)), json_type)
    /\ pos' = CloseOf(content, NextFence(content, pos)) + 1
    /\ UNCHANGED <<prog, pc, content, segs, json_type, start, i, depth, in_string,
                   escape_next, end, result, stdout, exit_code>>
    /\ UNCHANGED resolverVars

\* Method 1: no further fenced block
FencedDone ==
    /\ prog = "locator" /\ pc = "fenced"
    /\ NextFence(content, pos) = 0
    /\ pc' = "find_key"
    /\ UNCHANGED <<prog, content, segs, json_type, pos, start, i, depth, in_string,
                   escape_next, end, result, stdout, exit_code>>
    /\ UNCHANGED resolverVars

SearchKey(key) == <<Q>> \o key \o <<Q>>

RECURSIVE BackToBrace(_, _)
\* lines 42-44: while start > 0 and content[start] != '{': start -= 1
\* (1-based here: Python's index 0 is index 1)
BackToBrace(s, p) == IF p > 1 /\ s[p] # "{" THEN BackToBrace(s, p - 1) ELSE p

\* Method 2, lines 37-53: the key is not in the text, or no brace precedes it
FindKeyFail ==
    /\ prog = "locator" /\ pc = "find_key"
    /\ LET key_pos == Find(content, SearchKey(json_type))
       IN  \/ key_pos = 0
           \/ key_pos # 0 /\ content[BackToBrace(content, key_pos)] # "{"
    /\ result' = None
    /\ pc' = "main"
    /\ UNCHANGED <<prog, content, segs, json_type, pos, start, i, depth, in_string,
                   escape_next, end, stdout, exit_code>>
    /\ UNCHANGED resolverVars

\* Method 2, lines 37-53: the scan starts at the nearest brace before the key
FindKey ==
    /\ prog = "locator" /\ pc = "find_key"
    /\ LET key_pos == Find(content, SearchKey(json_type))
       IN  /\ key_pos # 0
           /\ content[BackToBrace(content, key_pos)] = "{"
           /\ start' = BackToBrace(content, key_pos)
           /\ i' = BackToBrace(content, key_pos)
           /\ end' = BackToBrace(content, key_pos)
    /\ depth' = 0
    /\ in_string' = FALSE
    /\ escape_next' = FALSE
    /\ pc' = "scan"
    /\ UNCHANGED <<prog, content, segs, json_type, pos, result, stdout, exit_code>>
    /\ UNCHANGED resolverVars

\* lines 55-73, one iteration of the loop on content[i]
ScanStep ==
    /\ prog = "locator" /\ pc = "scan"
    /\ i <= Len(content)
    /\ LET char == content[i]
       IN  IF escape_next
           THEN /\ escape_next' = FALSE
                /\ i' = i + 1
                /\ UNCHANGED <<pc, depth, in_string, end>>
           ELSE IF char = "\\" /\ in_string
           THEN /\ escape_next' = TRUE
                /\ i' = i + 1
                /\ UNCHANGED <<pc, depth, in_string, end>>
           ELSE IF char = "\""
           THEN /\ in_string' = ~in_string
                /\ i' = i + 1
                /\ UNCHANGED <<pc, depth, escape_next, end>>
           ELSE IF in_string
           THEN /\ i' = i + 1
                /\ UNCHANGED <<pc, depth, in_string, escape_next, end>>
           ELSE IF char = "{"
           THEN /\ depth' = depth + 1
                /\ i' = i + 1
                /\ UNCHANGED <<pc, in_string, escape_next, end>>
           ELSE IF char = "}"
           THEN /\ depth' = depth - 1
                /\ IF depth - 1 = 0
                   THEN end' = i + 1 /\ pc' = "check" /\ i' = i
                   ELSE i' = i + 1 /\ UNCHANGED <<pc, end>>
                /\ UNCHANGED <<in_string, escape_next>>
           ELSE /\ i' = i + 1
                /\ UNCHANGED <<pc, depth, in_string, escape_next, end>>
    /\ UNCHANGED <<prog, content, segs, json_type, pos, start, result, stdout, exit_code>>
    /\ UNCHANGED resolverVars

\* the loop runs off the end of the text
ScanExhausted ==
    /\ prog = "locator" /\ pc = "scan"
    /\ i > Len(content)
    /\ pc' = "check"
    /\ UNCHANGED <<prog, content, segs, json_type, pos, start, i, depth, in_string,
                   escape_next, end, result, stdout, exit_code>>
    /\ UNCHANGED resolverVars

\* lines 75-86
CheckCandidate ==
    /\ prog = "locator" /\ pc = "check"
    /\ LET candidate == SubSeq(content, start, end - 1)
       IN  result' = IF depth # 0 THEN None
                     ELSE IF Loads(candidate).ok /\ KeyIn(json_type, Loads(candidate))
                     THEN Some(candidate)
                     ELSE None
    /\ pc' = "main"
    /\ UNCHANGED <<prog, content, segs, json_type, pos, start, i, depth, in_string,
                   escape_next, end, stdout, exit_code>>
    /\ UNCHANGED resolverVars

\* main, lines 105-115
LocatorMain ==
    /\ prog = "locator" /\ pc = "main"
    /\ IF result.found /\ result.text # <<>> /\ Loads(result.text).ok
       THEN stdout' = <<Dumps(result.text)>> /\ exit_code' = 0
       ELSE stdout' = <<>> /\ exit_code' = 1
    /\ pc' = "exit"
    /\ UNCHANGED <<prog, content, segs, json_type, pos, start, i, depth, in_string,
                   escape_next, end, result>>
    /\ UNCHANGED resolverVars

NextLocator ==
    \/ FencedReturn
    \/ FencedSkip
    \/ FencedDone
    \/ FindKeyFail
    \/ FindKey
    \/ ScanStep
    \/ ScanExhausted
    \/ CheckCandidate
    \/ LocatorMain

SpecLocator == InitLocator /\ [][NextLocator]_vars

----------------------------------------------------------------------------
(* rate_limit_parser.py: symbols, lengths, regular expressions *)

RATE_LIMIT_BUFFER_SECONDS == 60

BARE_PATTERN_MAX_CONTENT_SIZE == 500

\* timedelta(days=1), in seconds
SecondsPerDay == 86400

\* Python's None for time_str and tz_str
NoText == <<"None">>

\* the phrase  you've hit your limit  as symbols; its length is 21 characters
PhraseHit == <<"you", "'", "ve", " ", "hit your limit">>

\* a run of filler characters that, with PhraseHit, makes exactly 500 characters
PadLen == BARE_PATTERN_MAX_CONTENT_SIZE - 21

\* len() of one symbol
SymLen(c) ==
    CASE c \in {"resets", "Resets"} -> 6
      [] c = "reset" -> 5
      [] c \in {"UTC", "Jan", "you", "You"} -> 3
      [] c \in {"You have", "all good"} -> 8
      [] c = "ve" -> 2
      [] c = "America/New_York" -> 16
      [] c = "Not/AZone" -> 9
      [] c \in {"hit your limit", "Hit Your Limit"} -> 14
      [] c = "rate limit exceeded" -> 19
      [] c \in {"rate limited", "Rate Limited"} -> 12
      [] c \in {"too many requests", "Too Many Requests"} -> 17
      [] c = "pad" -> PadLen
      [] c = "padx" -> PadLen + 1
      [] OTHER -> 1

RECURSIVE TextLen(_)
\* len(content)
TextLen(s) == IF s = <<>> THEN 0 ELSE SymLen(Head(s)) + TextLen(Tail(s))

\* str.lower() on one symbol, and what re.IGNORECASE compares
Lower(c) ==
    CASE c = "A" -> "a"
      [] c = "P" -> "p"
      [] c = "M" -> "m"
      [] c = "Resets" -> "resets"
      [] c = "Rate Limited" -> "rate limited"
      [] c = "You" -> "you"
      [] c = "You have" -> "you have"
      [] c = "Hit Your Limit" -> "hit your limit"
      [] c = "Too Many Requests" -> "too many requests"
      [] OTHER -> c

LowerAll(s) == [k \in 1..Len(s) |-> Lower(s[k])]

\* [A-Za-z]: the symbols made of letters only
IsAlpha(c) ==
    Lower(c) \in {"a", "p", "m", "x", "resets", "reset", "UTC", "Jan", "you", "ve", "pad", "padx"}

RECURSIVE SkipAlpha(_, _)
SkipAlpha(s, p) == IF p <= Len(s) /\ IsAlpha(s[p]) THEN SkipAlpha(s, p + 1) ELSE p

NoMatch == [ok |-> FALSE, t1 |-> 0, t2 |-> 0, z1 |-> 0, z2 |-> 0]

\* (?:am|pm) at p, ignoring case
MarkerAt(s, p) == p + 1 <= Len(s) /\ Lower(s[p]) \in {"a", "p"} /\ Lower(s[p + 1]) = "m"

\* \d{1,2} at p followed by no digit: the number of digits, 0 when it cannot match
Digits12(s, p) == IF ScanDigits(s, p) - p \in {1, 2} THEN ScanDigits(s, p) - p ELSE 0

\* \(([^)]+)\) at z, after a time captured at t1..t2
ZoneFrom(s, z, t1, t2) ==
    IF /\ z + 2 <= Len(s)
       /\ s[z] = "("
       /\ s[z + 1] # ")"
       /\ \E r \in (z + 2)..Len(s) : s[r] = ")"
    THEN [ok |-> TRUE, t1 |-> t1, t2 |-> t2, z1 |-> z + 1,
          z2 |-> (CHOOSE r \in (z + 2)..Len(s) :
                     s[r] = ")" /\ \A j \in (z + 2)..(r - 1) : s[j] # ")") - 1]
    ELSE NoMatch

\* \s*\(([^)]+)\) from e, after a time captured at t1..t2
ZoneAt(s, e, t1, t2) == ZoneFrom(s, SkipWs(s, e), t1, t2)

\* (?:am|pm) at w closes a time that starts at d; then the zone
MarkerThenZone(s, d, w) ==
    IF MarkerAt(s, w) THEN ZoneAt(s, w + 2, d, w + 1) ELSE NoMatch

\* (\d{1,2}\s*(?:am|pm)) at d, then the zone
HourMarkerAt(s, d) ==
    IF Digits12(s, d) > 0
    THEN MarkerThenZone(s, d, SkipWs(s, d + Digits12(s, d)))
    ELSE NoMatch

\* :\d{2} at c: the index after it, 0 when it cannot match
MinutesEnd(s, c) ==
    IF /\ c + 2 <= Len(s)
       /\ s[c] = ":"
       /\ s[c + 1] \in Digits
       /\ s[c + 2] \in Digits
    THEN c + 3
    ELSE 0

\* \d{1,2}:\d{2} at d: the index after it, 0 when it cannot match
ClockEnd(s, d) ==
    IF Digits12(s, d) > 0 THEN MinutesEnd(s, d + Digits12(s, d)) ELSE 0

\* (\d{1,2}:\d{2}\s*(?:am|pm)) at d, then the zone
ClockMarkerAt(s, d) ==
    IF ClockEnd(s, d) > 0 THEN MarkerThenZone(s, d, SkipWs(s, ClockEnd(s, d))) ELSE NoMatch

\* (\d{1,2}:\d{2}) at d, then the zone
ClockAt(s, d) ==
    IF ClockEnd(s, d) > 0 THEN ZoneAt(s, ClockEnd(s, d), d, ClockEnd(s, d) - 1) ELSE NoMatch

\* resets?\s+ at k: the index after it, 0 when it cannot match
ResetEnd(s, k) ==
    IF /\ k <= Len(s)
       /\ Lower(s[k]) \in {"reset", "resets"}
       /\ SkipWs(s, k + 1) > k + 1
    THEN SkipWs(s, k + 1)
    ELSE 0

\* pattern1 (lines 36-39) matched at k
Pattern1At(s, k) == IF ResetEnd(s, k) > 0 THEN HourMarkerAt(s, ResetEnd(s, k)) ELSE NoMatch

\* pattern2 (lines 42-45) matched at k
Pattern2At(s, k) == IF ResetEnd(s, k) > 0 THEN ClockMarkerAt(s, ResetEnd(s, k)) ELSE NoMatch

\* pattern3 (lines 48-51) matched at k
Pattern3At(s, k) == IF ResetEnd(s, k) > 0 THEN ClockAt(s, ResetEnd(s, k)) ELSE NoMatch

\* ,?\s+ at p: the index after it, 0 when it cannot match
CommaWsEnd(s, p) ==
    IF p <= Len(s) /\ s[p] = ","
    THEN (IF SkipWs(s, p + 1) > p + 1 THEN SkipWs(s, p + 1) ELSE 0)
    ELSE (IF SkipWs(s, p) > p THEN SkipWs(s, p) ELSE 0)

\* \d{4},?\s+ at y: the index after it, 0 when it cannot match
YearEnd(s, y) == IF y > 0 /\ ScanDigits(s, y) = y + 4 THEN CommaWsEnd(s, y + 4) ELSE 0

\* \d{1,2},?\s+\d{4},?\s+ at b: the index after it, 0 when it cannot match
DayYearEnd(s, b) ==
    IF Digits12(s, b) > 0 THEN YearEnd(s, CommaWsEnd(s, b + Digits12(s, b))) ELSE 0

\* [A-Za-z]+\s+\d{1,2},?\s+\d{4},?\s+ at d: the index after it, 0 when it cannot match
DateEnd(s, d) ==
    IF SkipAlpha(s, d) > d /\ SkipWs(s, SkipAlpha(s, d)) > SkipAlpha(s, d)
    THEN DayYearEnd(s, SkipWs(s, SkipAlpha(s, d)))
    ELSE 0

\* (\d{1,2}(?::\d{2})?\s*(?:am|pm)) at t, then the zone
DatedTimeAt(s, t) ==
    IF t = 0 THEN NoMatch
    ELSE IF ClockEnd(s, t) > 0 THEN ClockMarkerAt(s, t)
    ELSE HourMarkerAt(s, t)

\* pattern4 (lines 54-57) matched at k
Pattern4At(s, k) ==
    IF ResetEnd(s, k) > 0 THEN DatedTimeAt(s, DateEnd(s, ResetEnd(s, k))) ELSE NoMatch

\* pattern n of the four (lines 36-57) matched at k
PatternAt(n, s, k) ==
    CASE n = 1 -> Pattern1At(s, k)
      [] n = 2 -> Pattern2At(s, k)
      [] n = 3 -> Pattern3At(s, k)
      [] OTHER -> Pattern4At(s, k)

\* pattern.search(content): the leftmost match of pattern n
Search(n, s) ==
    IF \E k \in 1..Len(s) : PatternAt(n, s, k).ok
    THEN PatternAt(n, s, CHOOSE k \in 1..Len(s) :
                            PatternAt(n, s, k).ok /\ \A j \in 1..(k - 1) : ~PatternAt(n, s, j).ok)
    ELSE NoMatch

\* the same four matches taken in the order a, b, c, d
FirstMatchABCD(m2, m1, m3, m4) ==
    IF m1.ok THEN m1 ELSE IF m2.ok THEN m2 ELSE IF m3.ok THEN m3 ELSE m4

\* lines 69-72: the first of the four searches, in the order of the list, that matched
FirstMatch(m2, m1, m3, m4) ==
    IF m2.ok THEN m2 ELSE IF m1.ok THEN m1 ELSE IF m3.ok THEN m3 ELSE m4

TimeMatch(s) ==
    FirstMatch(Search(2, s), Search(1, s), Search(3, s), Search(4, s))

\* one of bare_patterns (lines 61-66) matches at k, ignoring case
BareAt(s, k) ==
    \/ /\ Lower(s[k]) = "you"
       /\ \E q \in {k + 1} \cup (IF k + 1 <= Len(s) /\ s[k + 1] = "'" THEN {k + 2} ELSE {}) :
              /\ q + 2 <= Len(s)
              /\ LowerAll(SubSeq(s, q, q + 2)) = <<"ve", " ", "hit your limit">>
    \/ Lower(s[k]) \in {"rate limit exceeded", "rate limited", "too many requests"}

\* lines 68-81 with the bare phrases searched only below the threshold
PatternResultBelow(s, m) ==
    IF m.ok
    THEN [time |-> Strip(SubSeq(s, m.t1, m.t2)),
          tz |-> Strip(SubSeq(s, m.z1, m.z2)),
          detected |-> TRUE]
    ELSE IF /\ TextLen(s) < BARE_PATTERN_MAX_CONTENT_SIZE
            /\ \E k \in 1..Len(s) : BareAt(s, k)
    THEN [time |-> NoText, tz |-> NoText, detected |-> TRUE]
    ELSE [time |-> NoText, tz |-> NoText, detected |-> FALSE]

\* lines 68-81, given the first match m of the time patterns
PatternResult(s, m) ==
    IF m.ok
    THEN [time |-> Strip(SubSeq(s, m.t1, m.t2)),
          tz |-> Strip(SubSeq(s, m.z1, m.z2)),
          detected |-> TRUE]
    ELSE IF /\ TextLen(s) <= BARE_PATTERN_MAX_CONTENT_SIZE
            /\ \E k \in 1..Len(s) : BareAt(s, k)
    THEN [time |-> NoText, tz |-> NoText, detected |-> TRUE]
    ELSE [time |-> NoText, tz |-> NoText, detected |-> FALSE]

\* find_rate_limit_pattern(content)
find_rate_limit_pattern(s) == PatternResult(s, TimeMatch(s))

----------------------------------------------------------------------------
(* rate_limit_parser.py: parse_time_with_timezone *)

\* the zones ZoneInfo(tz_str) resolves; any other label raises, which line 97 catches
KnownZones == {<<"UTC">>, <<"America/New_York">>}

\* days from 1970-01-01 to 2025-01-01: 55 years, 14 of them leap years
Date20250101 == 55 * 365 + 14

\* 2025-11-02, the day America/New_York leaves daylight time: at 02:00 EDT the
\* clocks go back to 01:00 EST, so 01:00-01:59 happens twice (fold 0, then fold 1)
Date20251102 == Date20250101 + 305

\* datetime.utcoffset() under ZoneInfo, in seconds
UtcOffset(tz, dt) ==
    IF tz = <<"UTC">> THEN 0
    ELSE IF dt.date < Date20251102 THEN -4 * 3600
    ELSE IF dt.date > Date20251102 THEN -5 * 3600
    ELSE IF dt.hour < 1 THEN -4 * 3600
    ELSE IF dt.hour = 1 /\ dt.fold = 0 THEN -4 * 3600
    ELSE -5 * 3600

\* %Z
TzName(tz, dt) ==
    IF tz = <<"UTC">> THEN "UTC"
    ELSE IF UtcOffset(tz, dt) = -4 * 3600 THEN "EDT" ELSE "EST"

\* seconds on the wall clock since 1970-01-01 00:00
WallSeconds(dt) ==
    dt.date * SecondsPerDay + dt.hour * 3600 + dt.minute * 60 + dt.second

\* datetime + timedelta(seconds=n): wall-clock arithmetic; the result has fold 0
AddSeconds(dt, n) ==
    LET w == WallSeconds(dt) + n
    IN  DateTime(w \div SecondsPerDay,
                 (w % SecondsPerDay) \div 3600,
                 (w % 3600) \div 60,
                 w % 60,
                 dt.microsecond,
                 0)

\* a <= b for two datetimes of the same tzinfo: the wall clocks are compared
WallLeq(a, b) ==
    \/ WallSeconds(a) < WallSeconds(b)
    \/ WallSeconds(a) = WallSeconds(b) /\ a.microsecond <= b.microsecond

\* int(dt.timestamp())
Timestamp(tz, dt) == WallSeconds(dt) - UtcOffset(tz, dt)

\* dt.strftime('%Y-%m-%d %H:%M:%S %Z'), as its fields
Strftime(tz, dt) == <<dt.date, dt.hour, dt.minute, dt.second, TzName(tz, dt)>>

DigitValue(c) ==
    CASE c = "0" -> 0 [] c = "1" -> 1 [] c = "2" -> 2 [] c = "3" -> 3 [] c = "4" -> 4
      [] c = "5" -> 5 [] c = "6" -> 6 [] c = "7" -> 7 [] c = "8" -> 8 [] c = "9" -> 9

RECURSIVE DigitsValue(_, _)
DigitsValue(s, acc) ==
    IF s = <<>> THEN acc ELSE DigitsValue(Tail(s), 10 * acc + DigitValue(Head(s)))

\* int(s): ok is FALSE where Python raises ValueError
ToInt(s) ==
    LET t == Strip(s)
    IN  IF t # <<>> /\ \A k \in 1..Len(t) : t[k] \in Digits
        THEN [ok |-> TRUE, val |-> DigitsValue(t, 0)]
        ELSE [ok |-> FALSE, val |-> 0]

RECURSIVE RStripApm(_)
\* s.rstrip('apm')
RStripApm(s) ==
    IF s # <<>> /\ s[Len(s)] \in {"a", "p", "m"} THEN RStripApm(SubSeq(s, 1, Len(s) - 1)) ELSE s

\* re.sub(r'\s+', '', s)
RemoveWs(s) == SelectSeq(s, LAMBDA c : ~IsWs(c))

ClockFail == [ok |-> FALSE, hour |-> 0, minute |-> 0]

\* hour, minute = s.split(':'), then int() of both; ValueError unless there are two parts
SplitClock(s) ==
    LET colons == {k \in 1..Len(s) : s[k] = ":"}
    IN  IF Cardinality(colons) # 1 THEN ClockFail
        ELSE LET c == CHOOSE k \in colons : TRUE
                 h == ToInt(SubSeq(s, 1, c - 1))
                 m == ToInt(SubSeq(s, c + 1, Len(s)))
             IN  IF h.ok /\ m.ok THEN [ok |-> TRUE, hour |-> h.val, minute |-> m.val]
                 ELSE ClockFail

\* lines 135-139
To24HourNoTwelve(t, h) ==
    IF Contains(t, <<"p", "m">>) THEN h + 12 ELSE h

To24Hour(t, h) ==
    IF Contains(t, <<"p", "m">>) /\ h # 12 THEN h + 12
    ELSE IF Contains(t, <<"a", "m">>) /\ h = 12 THEN 0
    ELSE h

HasColon(s) == \E k \in 1..Len(s) : s[k] = ":"

\* lines 109-117: no am/pm in the text
Parse24(low) == IF HasColon(low) THEN SplitClock(low) ELSE ClockFail

\* lines 124-133: the text without its whitespace, before the conversion
Parse12Raw(packed) ==
    IF HasColon(packed) THEN SplitClock(RStripApm(packed))
    ELSE [ok |-> ToInt(RStripApm(packed)).ok, hour |-> ToInt(RStripApm(packed)).val,
          minute |-> 0]

\* lines 121-141
Parse12(packed) ==
    IF Parse12Raw(packed).ok
    THEN [Parse12Raw(packed) EXCEPT !.hour = To24Hour(packed, Parse12Raw(packed).hour)]
    ELSE ClockFail

\* lines 108-141, low being time_str.lower().strip()
ParseLower(low) ==
    IF ~Contains(low, <<"a", "m">>) /\ ~Contains(low, <<"p", "m">>)
    THEN Parse24(low)
    ELSE Parse12(RemoveWs(low))

\* lines 105-141: ok is FALSE where the function returns None
ParseClock(t) == ParseLower(Strip(LowerAll(t)))

\* now.replace(hour=h, minute=m, second=0, microsecond=0) raises ValueError unless
ValidClock(h, m) == h \in 0..23 /\ m \in 0..59

\* line 144; replace keeps the fold of now
Candidate(n, h, m) ==
    [n EXCEPT !.hour = h, !.minute = m, !.second = 0, !.microsecond = 0]

\* lines 147-148: the time is in the past, assume tomorrow
Rollover(c, n) == IF WallLeq(c, n) THEN AddSeconds(c, SecondsPerDay) ELSE c

\* line 151
AddBuffer(dt) == AddSeconds(dt, RATE_LIMIT_BUFFER_SECONDS)

\* lines 144-151
ResetTime(n, h, m) == AddBuffer(Rollover(Candidate(n, h, m), n))

----------------------------------------------------------------------------
(* The Resolver's inputs *)

\* the largest hour written in a notice
MaxHour == 25

\* the largest number of pieces of a text put together from SmallPieces
MaxPieces == 2

DigitChar(n) == <<"0", "1", "2", "3", "4", "5", "6", "7", "8", "9">>[n + 1]

\* a number as written, without a leading zero
NumberText(n) == IF n < 10 THEN <<DigitChar(n)>> ELSE <<DigitChar(n \div 10), DigitChar(n % 10)>>

\* a number as two digits
TwoDigits(n) == <<DigitChar(n \div 10), DigitChar(n % 10)>>

\* the minutes written in a notice; -1 stands for a notice without minutes
Minutes == {-1, 0, 30, 45, 59, 75}

\* the am/pm markers written in a notice; <<>> stands for a notice without one
Markers == {<<>>, <<"a", "m">>, <<"p", "m">>, <<" ", "p", "m">>, <<"P", "M">>, <<" ", "A", "M">>}

DatePrefix == <<"Jan", " ", "1", ",", " ", "2", "0", "2", "6", ",", " ">>

\* the time as written: h, then :mm unless there are no minutes, then the marker
TimeText(h, m, mk) ==
    NumberText(h) \o (IF m < 0 THEN <<>> ELSE <<":">> \o TwoDigits(m)) \o mk

\* which of the four shapes of section 4.2 a notice has
ShapeOf(m, mk, dated) ==
    IF dated THEN (IF mk # <<>> THEN "d" ELSE "none")
    ELSE IF mk # <<>> THEN (IF m < 0 THEN "a" ELSE "b")
    ELSE IF m >= 0 THEN "c"
    ELSE "none"

\* a notice:  resets [Jan 1, 2026, ]<time> (<zone>)
Notice(h, m, mk, z, dated) ==
    [kind  |-> "notice",
     shape |-> ShapeOf(m, mk, dated),
     h     |-> h,
     m     |-> m,
     mk    |-> mk,
     time  |-> TimeText(h, m, mk),
     zone  |-> <<z>>,
     body  |-> <<"resets", " ">> \o (IF dated THEN DatePrefix ELSE <<>>)
               \o TimeText(h, m, mk) \o <<" ", "(", z, ")", " ">>]

Filler(b) ==
    [kind |-> "filler", shape |-> "none", h |-> 0, m |-> -1, mk |-> <<>>,
     time |-> <<>>, zone |-> <<>>, body |-> b]

SingleNotices ==
    {Notice(h, m, mk, z, FALSE) :
        h \in 0..MaxHour, m \in Minutes, mk \in Markers,
        z \in {"UTC", "America/New_York", "Not/AZone"}}

SmallPieces ==
    { Notice(6, -1, <<"p", "m">>, "UTC", FALSE),
      Notice(7, 30, <<"p", "m">>, "America/New_York", FALSE),
      Notice(18, 0, <<>>, "UTC", FALSE),
      Notice(9, -1, <<"a", "m">>, "UTC", TRUE),
      Filler(PhraseHit),
      Filler(<<"You", "ve", " ", "Hit Your Limit">>),
      Filler(<<"hit your limit">>),
      Filler(<<"You have", " ", "hit your limit">>),
      Filler(<<"rate limit exceeded">>),
      Filler(<<"Rate Limited">>),
      Filler(<<"Too Many Requests">>),
      Filler(<<"all good">>),
      Filler(<<"pad">>),
      Filler(<<"padx">>) }

ResolverInputs ==
    {<<n>> : n \in SingleNotices} \cup UNION {[1..n -> SmallPieces] : n \in 0..MaxPieces}

\* what datetime.now(tz) can return
Nows(tz) ==
    IF tz = <<"UTC">>
    THEN {DateTime(Date20250101, h, m, su[1], su[2], 0) :
            h \in {0, 10, 18, 20, 23}, m \in {0, 59}, su \in {<<0, 0>>, <<0, 1>>, <<30, 0>>}}
    ELSE {DateTime(Date20251102, c[1], c[2], 0, 0, c[3]) :
            c \in {<<0, 30, 0>>, <<1, 30, 0>>, <<1, 30, 1>>, <<1, 50, 1>>, <<3, 0, 0>>}}

----------------------------------------------------------------------------
(* rate_limit_parser.py: main *)

InitResolver ==
    /\ prog = "resolver"
    /\ pc = "find"
    /\ segs \in ResolverInputs
    /\ content = RenderAll(segs)
    /\ json_type = <<>>
    /\ pos = 0 /\ start = 0 /\ i = 0 /\ depth = 0 /\ end = 0
    /\ in_string = FALSE /\ escape_next = FALSE
    /\ result = None
    /\ time_str = NoText /\ tz_str = NoText /\ detected = FALSE
    /\ now = NoTime /\ hour = 0 /\ minute = 0
    /\ stdout = <<>>
    /\ exit_code = -1

\* lines 176-180: nothing detected, exit 1 with no output
NotDetected ==
    /\ prog = "resolver" /\ pc = "find"
    /\ ~find_rate_limit_pattern(content).detected
    /\ detected' = FALSE
    /\ pc' = "exit"
    /\ exit_code' = 1
    /\ UNCHANGED <<prog, content, segs, locatorVars, time_str, tz_str, now, hour, minute, stdout>>

\* lines 176-185: detected by a bare phrase, exit 2
DetectedNoTime ==
    /\ prog = "resolver" /\ pc = "find"
    /\ \E r \in {find_rate_limit_pattern(content)} : r.detected /\ r.time = NoText
    /\ detected' = TRUE
    /\ pc' = "exit"
    /\ exit_code' = 2
    /\ UNCHANGED <<prog, content, segs, locatorVars, time_str, tz_str, now, hour, minute, stdout>>

\* lines 176-187: a time and a zone were captured
DetectedTime ==
    /\ prog = "resolver" /\ pc = "find"
    /\ \E r \in {find_rate_limit_pattern(content)} :
          /\ r.detected /\ r.time # NoText
          /\ time_str' = r.time
          /\ tz_str' = r.tz
    /\ detected' = TRUE
    /\ pc' = "zone"
    /\ UNCHANGED <<prog, content, segs, locatorVars, now, hour, minute, stdout, exit_code>>

\* lines 95-99 and 188-191: ZoneInfo raises, the function returns None, exit 2
ZoneInvalid ==
    /\ prog = "resolver" /\ pc = "zone"
    /\ tz_str \notin KnownZones
    /\ pc' = "exit"
    /\ exit_code' = 2
    /\ UNCHANGED <<prog, content, segs, locatorVars, resolverVars, stdout>>

\* lines 95-102: the zone resolves and the clock is read
ReadNow ==
    /\ prog = "resolver" /\ pc = "zone"
    /\ tz_str \in KnownZones
    /\ now' \in Nows(tz_str)
    /\ pc' = "parse"
    /\ UNCHANGED <<prog, content, segs, locatorVars, time_str, tz_str, detected, hour, minute,
                   stdout, exit_code>>

\* lines 105-141 (and 188-191 when the function returns None)
ParseTime ==
    /\ prog = "resolver" /\ pc = "parse"
    /\ \E c \in {ParseClock(time_str)} :
          IF c.ok
          THEN /\ hour' = c.hour
               /\ minute' = c.minute
               /\ pc' = "replace"
               /\ UNCHANGED exit_code
          ELSE /\ pc' = "exit"
               /\ exit_code' = 2
               /\ UNCHANGED <<hour, minute>>
    /\ UNCHANGED <<prog, content, segs, locatorVars, time_str, tz_str, detected, now, stdout>>

\* line 144: now.replace raises ValueError, which nothing catches: the process
\* ends with a traceback and exit code 1
ReplaceRaises ==
    /\ prog = "resolver" /\ pc = "replace"
    /\ ~ValidClock(hour, minute)
    /\ pc' = "crashed"
    /\ exit_code' = 1
    /\ UNCHANGED <<prog, content, segs, locatorVars, resolverVars, stdout>>

\* lines 144-159 and 193-200: the three lines printed, exit 0
PrintReset ==
    /\ prog = "resolver" /\ pc = "replace"
    /\ ValidClock(hour, minute)
    /\ LET reset_time == ResetTime(now, hour, minute)
       IN  stdout' = <<Timestamp(tz_str, reset_time), Strftime(tz_str, reset_time), tz_str>>
    /\ pc' = "exit"
    /\ exit_code' = 0
    /\ UNCHANGED <<prog, content, segs, locatorVars, resolverVars>>

NextResolver ==
    \/ NotDetected
    \/ DetectedNoTime
    \/ DetectedTime
    \/ ZoneInvalid
    \/ ReadNow
    \/ ParseTime
    \/ ReplaceRaises
    \/ PrintReset

SpecResolver == InitResolver /\ [][NextResolver]_vars

Init == InitLocator \/ InitResolver

Next == NextLocator \/ NextResolver

Spec == Init /\ [][Next]_vars

----------------------------------------------------------------------------
(* Claims about the Locator *)

LocatorExited == prog = "locator" /\ pc = "exit"

\* text t is a well-formed JSON object with key at its top level
IsKeyedObject(t, key) ==
    Loads(t).ok /\ Loads(t).kind = "obj" /\ key \in Loads(t).keys

\* piece k is a bare keyed object and every other piece is prose
WrapsObject(k) ==
    /\ segs[k].kind = "bare"
    /\ IsKeyedObject(segs[k].body, json_type)
    /\ \A j \in (1..Len(segs)) \ {k} : segs[j].kind = "prose"

\* the Locator returned text whose JSON value is the value of text t
ReturnsValueOf(t) ==
    /\ result.found
    /\ Loads(result.text).ok
    /\ Dumps(result.text) = Dumps(t)
    /\ exit_code = 0

(* C1: for every well-formed object with the marker key at top level and    *)
(* every prose before and after it, the Locator returns that object: never  *)
(* NotFound, never another object.                                          *)
C1_WrappedObjectReturned ==
    LocatorExited =>
        \A k \in 1..Len(segs) : WrapsObject(k) => ReturnsValueOf(segs[k].body)

(* C2: whenever the Locator succeeds (exit code 0) the returned text is     *)
(* valid JSON whose value is an object with the marker key at top level.    *)
C2_SuccessIsKeyedObject ==
    (LocatorExited /\ exit_code = 0) => IsKeyedObject(result.text, json_type)

RECURSIVE InStringFrom(_, _, _)
\* the indexes of s from p on that lie inside a string literal, quotes excluded
InStringFrom(s, p, instr) ==
    IF p > Len(s) THEN {}
    ELSE IF instr
         THEN IF s[p] = "\\" /\ p + 1 <= Len(s)
              THEN {p, p + 1} \cup InStringFrom(s, p + 2, TRUE)
              ELSE IF s[p] = "\"" THEN InStringFrom(s, p + 1, FALSE)
              ELSE {p} \cup InStringFrom(s, p + 1, TRUE)
    ELSE InStringFrom(s, p + 1, s[p] = "\"")

\* a string literal of t holds a brace or a backslash escape
HasTrickyString(t) ==
    \E p \in InStringFrom(t, 1, FALSE) : t[p] \in {"{", "}", "\\"}

\* piece k is a bare keyed object with such a string and the rest is plain prose
TrickyObjectAt(k) ==
    /\ segs[k].kind = "bare"
    /\ IsKeyedObject(segs[k].body, json_type)
    /\ HasTrickyString(segs[k].body)
    /\ \A j \in (1..Len(segs)) \ {k} : segs[j] = [kind |-> "prose", body |-> ProsePlain]

(* C3: for every object whose string values hold braces, escaped quotes or  *)
(* escaped backslashes, the bracket-matching pass ends at the object's own  *)
(* closing brace and the Locator returns the full object.                   *)
C3_TrickyObjectReturnedWhole ==
    LocatorExited =>
        \A k \in 1..Len(segs) : TrickyObjectAt(k) => result = Some(segs[k].body)

\* the pieces that are fenced blocks holding a keyed object
KeyedFences ==
    {k \in 1..Len(segs) : segs[k].kind = "fenced" /\ IsKeyedObject(segs[k].body, json_type)}

FirstOf(S) == CHOOSE k \in S : \A j \in S : k <= j

(* C4: when the text holds a fenced block that is a keyed object and a bare *)
(* keyed object elsewhere, the Locator returns the content of the first     *)
(* such fenced block, wherever the bare object stands.                      *)
C4_FencedBlockWins ==
    (/\ LocatorExited
     /\ KeyedFences # {}
     /\ \E b \in 1..Len(segs) :
            segs[b].kind = "bare" /\ IsKeyedObject(segs[b].body, json_type))
    => result = Some(segs[FirstOf(KeyedFences)].body)

----------------------------------------------------------------------------
(* Claims about the Resolver *)

ResolverEnded == prog = "resolver" /\ pc \in {"exit", "crashed"}

\* the notices of the text that have one of the four shapes of section 4.2
Shaped == {k \in 1..Len(segs) : segs[k].kind = "notice" /\ segs[k].shape # "none"}

\* the order in which the shapes are tried: b, a, c, d
Rank(shape) == CASE shape = "b" -> 1 [] shape = "a" -> 2 [] shape = "c" -> 3 [] OTHER -> 4

\* the notice the spec says is used: the first in the text among those of the
\* shape tried first
Used ==
    CHOOSE k \in Shaped : \A j \in Shaped :
        \/ Rank(segs[k].shape) < Rank(segs[j].shape)
        \/ Rank(segs[k].shape) = Rank(segs[j].shape) /\ k <= j

\* a notice the spec says cannot be resolved: an unknown zone, minutes above
\* 59, a 24-hour hour above 23, a 12-hour hour above 12
BadNotice(n) ==
    \/ n.zone \notin KnownZones
    \/ n.m > 59
    \/ n.mk = <<>> /\ n.h > 23
    \/ n.mk # <<>> /\ n.h > 12

\* C5: once a time and a zone were captured, the run ends with exit 0 or with
\* exit 2 and never with an uncaught error, and it ends with exit 2 whenever
\* the zone is unknown or the captured time is not a valid time of day
C5_FailureIsUnparseable ==
    (ResolverEnded /\ time_str # NoText) =>
        /\ pc = "exit"
        /\ exit_code \in {0, 2}
        /\ BadNotice(segs[Used]) => exit_code = 2

\* the same wall clock on the next calendar day
NextDay(c) == [c EXCEPT !.date = @ + 1, !.fold = 0]

\* C6: the printed epoch is the candidate's instant plus 60 seconds when the
\* candidate is after now, and the instant of the candidate one calendar day
\* later plus 60 seconds when the candidate is at or before now
C6_RolloverAndBuffer ==
    (prog = "resolver" /\ pc = "exit" /\ exit_code = 0) =>
        stdout[1] =
            IF Timestamp(tz_str, Candidate(now, hour, minute)) > Timestamp(tz_str, now)
            THEN Timestamp(tz_str, Candidate(now, hour, minute)) + 60
            ELSE Timestamp(tz_str, NextDay(Candidate(now, hour, minute))) + 60

\* C7: a printed epoch is strictly after the instant at which now was read
\* (an integer epoch is after now exactly when it exceeds now's whole seconds)
C7_EpochInFuture ==
    (prog = "resolver" /\ pc = "exit" /\ exit_code = 0) =>
        stdout[1] > Timestamp(tz_str, now)

\* C8: whenever the text holds a notice of one of the four shapes, the time
\* and the zone captured are those of the first notice of the shape tried
\* first in the order b, a, c, d, wherever it stands in the text; and for a
\* dated notice the date printed is today's or tomorrow's, not the stated one
C8_FirstPatternInOrderWins ==
    (prog = "resolver" /\ pc # "find" /\ Shaped # {}) =>
        /\ detected
        /\ time_str = segs[Used].time
        /\ tz_str = segs[Used].zone
        /\ (segs[Used].shape = "d" /\ pc = "exit" /\ exit_code = 0) =>
               stdout[2][1] \in {now.date, now.date + 1}

\* a notice of shape a stands before a notice of shape b and the time
\* captured is the second one's
C8_Witness ==
    /\ prog = "resolver" /\ pc = "zone"
    /\ Len(segs) = 2
    /\ segs[1].shape = "a" /\ segs[2].shape = "b"
    /\ time_str = segs[2].time /\ time_str # segs[1].time

HasPhrase == \E k \in 1..Len(segs) : segs[k].body = PhraseHit

\* C9: a text with no notice of the four shapes that holds the phrase ends
\* with exit 2 when it is at most 500 characters long and with exit 1 and no
\* output when it is longer; a text with a notice of one of the four shapes is
\* detected whatever its length
C9_ShortContentThreshold ==
    (prog = "resolver" /\ pc # "find") =>
        /\ (Shaped = {} /\ HasPhrase /\ TextLen(content) <= 500) =>
               pc = "exit" /\ exit_code = 2 /\ detected /\ stdout = <<>>
        /\ (Shaped = {} /\ HasPhrase /\ TextLen(content) > 500) =>
               pc = "exit" /\ exit_code = 1 /\ ~detected /\ stdout = <<>>
        /\ Shaped # {} => detected

\* the phrase in a text of exactly 500 characters, detected
C9_Witness ==
    /\ prog = "resolver" /\ pc = "exit"
    /\ Shaped = {} /\ HasPhrase
    /\ TextLen(content) = 500
    /\ exit_code = 2

\* the hour the spec gives for hour h of 1..12 under a marker
Hour24(h, mk) ==
    IF LowerAll(Strip(mk)) = <<"a", "m">>
    THEN (IF h = 12 THEN 0 ELSE h)
    ELSE (IF h = 12 THEN 12 ELSE h + 12)

\* C10: for a captured time with a marker and an hour of 1..12 in a known
\* zone, the time is parsed, 12 am gives hour 0, 1-11 pm give hour + 12, 12 pm
\* gives 12, 1-11 am are unchanged, and the minute is the stated one or 0
C10_TwelveHourConversion ==
    (/\ prog = "resolver" /\ pc \in {"replace", "exit", "crashed"}
     /\ Shaped # {} /\ tz_str \in KnownZones
     /\ segs[Used].mk # <<>> /\ segs[Used].h \in 1..12) =>
        /\ ~(pc = "exit" /\ exit_code = 2)
        /\ hour = Hour24(segs[Used].h, segs[Used].mk)
        /\ minute = IF segs[Used].m < 0 THEN 0 ELSE segs[Used].m

\* 12:30 AM, written with a space before the marker, parsed as 0:30
C10_Witness ==
    /\ prog = "resolver" /\ pc = "replace"
    /\ Len(segs) = 1
    /\ segs[1].h = 12 /\ segs[1].m = 30 /\ segs[1].mk = <<" ", "A", "M">>
    /\ hour = 0 /\ minute = 30

\* the spellings of the four bare phrases of section 4.2 that a text can hold
BarePhrases ==
    {"hit your limit", "Hit Your Limit", "rate limit exceeded", "rate limited",
     "Rate Limited", "too many requests", "Too Many Requests"}

HasBarePhrase ==
    \E k \in 1..Len(segs) : \E j \in 1..Len(segs[k].body) : segs[k].body[j] \in BarePhrases

\* C11: a text of at most 500 characters with no notice of the four shapes
\* ends with exit 2 when it holds one of the four bare phrases, in any case
\* and whatever stands before it, and with exit 1 and no detection when it
\* holds none
C11_BarePhraseSet ==
    (prog = "resolver" /\ pc # "find" /\ Shaped = {} /\ TextLen(content) <= 500) =>
        IF HasBarePhrase
        THEN pc = "exit" /\ exit_code = 2 /\ detected
        ELSE pc = "exit" /\ exit_code = 1 /\ ~detected

====
